---- MODULE Spec2Model ----
(***************************************************************************)
(* Content-addressed file store of main.py: upload_file (put),            *)
(* download_file (get), delete_file (delete) over the directory tree      *)
(* store/<hash[:2]>/<hash>, with the temp-file-then-rename writer         *)
(* open_atomic/tempfile.                                                   *)
(*                                                                         *)
(* Names are sequences of one-character strings, so that hash[:2] and the  *)
(* splitting of the formatted path on "/" are computed, not assumed.       *)
(* The literals "store", "tmp" and "config.json" are single tokens.        *)
(* Paths are sequences of names, relative to the working directory <<>>.   *)
(***************************************************************************)
EXTENDS Integers, Sequences, FiniteSets, TLC

\* ---------------------------------------------------------------- bounds
NumProcs == 2        \* handlers that may be in flight at once
MaxPayloadLen == 1   \* longest request body, in bytes
HexLen == 3          \* hex digits of a digest in the model
MaxRequests == 4     \* requests accepted in one behaviour
MaxStale == 1        \* temporary files that kills of the server leave behind

\* ------------------------------------------------------ program constants
ShardLen == 2        \* file_hash[:2]

Procs == 1..NumProcs
Bytes == {0, 1}

RECURSIVE SeqsUpTo(_)
SeqsUpTo(n) ==
    IF n = 0 THEN {<<>>}
    ELSE LET S == SeqsUpTo(n - 1) IN
         S \cup {Append(s, b) : s \in {t \in S : Len(t) = n - 1}, b \in Bytes}

Payloads == SeqsUpTo(MaxPayloadLen)

\* ------------------------------------------------------------ fingerprint
HexDigits == <<"0","1","2","3","4","5","6","7","8","9","a","b","c","d","e","f">>

RECURSIVE Pow(_, _)
Pow(b, e) == IF e = 0 THEN 1 ELSE b * Pow(b, e - 1)

RECURSIVE ToHex(_, _)
ToHex(n, w) == IF w = 0 THEN <<>>
               ELSE Append(ToHex(n \div 16, w - 1), HexDigits[(n % 16) + 1])

\* The body read as a number: a leading 1 bit followed by its bytes.
RECURSIVE BodyNumber(_)
BodyNumber(body) == IF body = <<>> THEN 1
                    ELSE 2 * BodyNumber(SubSeq(body, 1, Len(body) - 1))
                         + body[Len(body)]

\* md5(body).hexdigest(): a deterministic, fixed-length, lowercase hex digest
\* (a multiplicative hash stands for MD5; it is injective on Payloads).
Fingerprint(body) == ToHex((BodyNumber(body) * 7) % Pow(16, HexLen), HexLen)

\* ------------------------------------------------------------------ paths
Store == <<"store">>
Slash == "/"
Dot == <<".">>
DotDot == <<".", ".">>
ConfigName == <<"config.json">>
Cwd == <<>>

Min(a, b) == IF a < b THEN a ELSE b

\* file_hash[:2]
Prefix(name) == SubSeq(name, 1, Min(ShardLen, Len(name)))

\* f"store/{file_hash[:2]}/{file_hash}"
Formatted(name) == Store \o <<Slash>> \o Prefix(name) \o <<Slash>> \o name

RECURSIVE SplitFrom(_, _, _, _)
SplitFrom(s, i, cur, out) ==
    IF i > Len(s) THEN Append(out, cur)
    ELSE IF s[i] = Slash THEN SplitFrom(s, i + 1, <<>>, Append(out, cur))
    ELSE SplitFrom(s, i + 1, Append(cur, s[i]), out)

Split(s) == SplitFrom(s, 1, <<>>, <<>>)

\* pathlib drops empty and "." components and keeps ".." ones
Lexical(parts) == SelectSeq(parts, LAMBDA c : c # <<>> /\ c # Dot)

\* Path(os.getcwd(), f"store/{file_hash[:2]}/{file_hash}")
FilePath(name) == Lexical(Split(Formatted(name)))

\* Path.parent
Parent(path) == SubSeq(path, 1, Len(path) - 1)

\* Path(f"store/{file_hash[:2]}/")
ShardDir(hash) == <<Store, Prefix(hash)>>

VARIABLES
    files,      \* regular files: resolved path -> content
    dirs,       \* directories below the working directory
    pc,         \* position of each handler
    req,        \* the request a handler serves
    tmp,        \* tf.name of the put in flight (<<>>: none)
    written,    \* bytes of the body written to the temporary file
    exc,        \* exception travelling through the with-blocks ("": none)
    resp,       \* response of the handler
    nreq,       \* requests accepted so far
    hist,       \* per payload: fingerprints returned by puts since the last
                \* successful delete of its blob, and whether one has happened
    sib         \* directory listing a delete saw around its unlink

vars == <<files, dirs, pc, req, tmp, written, exc, resp, nreq, hist, sib>>

\* ------------------------------------------------------------- file system
IsDir(p) == p = Cwd \/ p \in dirs
IsFile(p) == p \in DOMAIN files

\* The kernel's walk of a path whose components are `parts`: "." and ".."
\* need the directory they are looked up in; a walk above the working
\* directory leaves the modelled tree.
RECURSIVE Walk(_, _, _)
Walk(parts, i, cur) ==
    IF i > Len(parts) THEN [ok |-> TRUE, path |-> cur]
    ELSE IF ~IsDir(cur) THEN [ok |-> FALSE, path |-> cur]
    ELSE IF parts[i] = DotDot
         THEN IF cur = Cwd THEN [ok |-> FALSE, path |-> cur]
              ELSE Walk(parts, i + 1, Parent(cur))
    ELSE Walk(parts, i + 1, Append(cur, parts[i]))

Resolve(parts) == Walk(parts, 1, Cwd)

\* Path.exists()
Exists(parts) == LET r == Resolve(parts) IN
                 r.ok /\ (IsDir(r.path) \/ IsFile(r.path))

\* names of the entries of directory d
Entries(d) == {p[Len(p)] : p \in {q \in DOMAIN files \cup dirs :
                                   Len(q) = Len(d) + 1 /\ Parent(q) = d}}

Without(f, p) == [q \in DOMAIN f \ {p} |-> f[q]]
With(f, p, c) == [q \in DOMAIN f \cup {p} |-> IF q = p THEN c ELSE f[q]]

\* ---------------------------------------------------------------- requests
Unused == ToHex(0, HexLen)
Fingerprints == {Fingerprint(b) : b \in Payloads}
Alias(fp) == <<".", Slash>> \o Prefix(fp) \o <<Slash>> \o fp
Malformed == {<<>>, <<"0">>, <<".", Slash, ".", ".", Slash>> \o ConfigName}
             \cup {Alias(fp) : fp \in Fingerprints}
DeleteNames == Fingerprints \cup {Unused} \cup Malformed
\* the route /file/{name} matches one non-empty path segment
GetNames == {n \in DeleteNames : n # <<>> /\ \A i \in 1..Len(n) : n[i] # Slash}

NoReq == [op |-> "none", body |-> <<>>, name |-> <<>>, fsync |-> FALSE]
NoResp == [status |-> 0, kind |-> "none", hash |-> <<>>, bytes |-> <<>>, err |-> ""]
Reply(s, k) == [status |-> s, kind |-> k, hash |-> <<>>, bytes |-> <<>>, err |-> ""]
\* exception e leaves the handler: aiohttp answers 500
Raised(e) == [status |-> 500, kind |-> "error", hash |-> <<>>, bytes |-> <<>>,
              err |-> e]

Init ==
    /\ files = [p \in {<<ConfigName>>} |-> <<>>]
    /\ dirs = {}
    /\ pc = [p \in Procs |-> "idle"]
    /\ req = [p \in Procs |-> NoReq]
    /\ tmp = [p \in Procs |-> <<>>]
    /\ written = [p \in Procs |-> 0]
    /\ exc = [p \in Procs |-> ""]
    /\ resp = [p \in Procs |-> NoResp]
    /\ nreq = 0
    /\ hist = [b \in Payloads |-> [rets |-> <<>>, del |-> FALSE,
                                    pub |-> FALSE, cut |-> FALSE]]
    /\ sib = [p \in Procs |-> {}]

\* A handler returns (or an exception leaves it): its locals die with it.
Done(p, r) ==
    /\ pc' = [pc EXCEPT ![p] = "done"]
    /\ resp' = [resp EXCEPT ![p] = r]
    /\ tmp' = [tmp EXCEPT ![p] = <<>>]
    /\ written' = [written EXCEPT ![p] = 0]
    /\ exc' = [exc EXCEPT ![p] = ""]

Goto(p, label) == pc' = [pc EXCEPT ![p] = label]

\* The response has been sent; the handler can take the next request.
Finish(p) ==
    /\ pc[p] = "done"
    /\ Goto(p, "idle")
    /\ req' = [req EXCEPT ![p] = NoReq]
    /\ resp' = [resp EXCEPT ![p] = NoResp]
    /\ sib' = [sib EXCEPT ![p] = {}]
    /\ UNCHANGED <<files, dirs, tmp, written, exc, nreq, hist>>

\* A free handler takes a request, while the budget lasts.
Accepts(p) ==
    /\ pc[p] = "idle"
    /\ nreq < MaxRequests

\* ------------------------------------------------------ upload_file (put)
BlobPath(hash) == Append(ShardDir(hash), hash)
\* Mutant: the writer opens the destination itself instead of a temporary
InPlacePath(p) == BlobPath(req[p].name)

TmpPath(p) == Append(ShardDir(req[p].name), tmp[p])

\* history: a put has returned `hash` for `body`
HistPut(body, hash) ==
    [hist EXCEPT ![body].rets = IF Len(@) < 2 THEN Append(@, hash)
                                ELSE <<@[1], hash>>]

\* history: a rename has published at `path`
HistRename(path) ==
    [b \in Payloads |-> IF path = BlobPath(Fingerprint(b))
                        THEN [hist[b] EXCEPT !.del = FALSE, !.pub = TRUE]
                        ELSE hist[b]]

\* errors of the operating system that no request causes: no room on the
\* device, no free file descriptor, an input/output error
EnvFaults == {"ENOSPC", "EMFILE", "EIO"}

\* NamedTemporaryFile draws a random name and retries while it is taken; the
\* draw is modelled as fresh: a name no entry of the directory and no put in
\* flight uses.
TmpNames == {<<"tmp", HexDigits[i]>> : i \in Procs}
FreeTmp(d) == {t \in TmpNames : t \notin Entries(d) /\ \A q \in Procs : tmp[q] # t}

\* body = await request.read(); file_hash = md5(body).hexdigest()
StartPut(p, body) ==
    /\ Accepts(p)
    /\ nreq' = nreq + 1
    /\ req' = [req EXCEPT ![p] = [op |-> "put", body |-> body,
                                  name |-> Fingerprint(body), fsync |-> FALSE]]
    /\ Goto(p, "put_exists")
    /\ UNCHANGED <<files, dirs, tmp, written, exc, resp, hist, sib>>

\* the same upload through open_atomic(file_dir / file_hash, "wb", fsync=True),
\* the writer's documented option
StartPutFsync(p, body) ==
    /\ Accepts(p)
    /\ nreq' = nreq + 1
    /\ req' = [req EXCEPT ![p] = [op |-> "put", body |-> body,
                                  name |-> Fingerprint(body), fsync |-> TRUE]]
    /\ Goto(p, "put_exists")
    /\ UNCHANGED <<files, dirs, tmp, written, exc, resp, hist, sib>>

\* if not file_dir.exists():
PutExists(p) ==
    /\ pc[p] = "put_exists"
    /\ Goto(p, IF Exists(ShardDir(req[p].name)) THEN "put_mktemp" ELSE "put_mkdir")
    /\ UNCHANGED <<files, dirs, req, tmp, written, exc, resp, nreq, hist, sib>>

\* file_dir.mkdir(parents=True): FileExistsError when the directory is there
PutMkdir(p) ==
    /\ pc[p] = "put_mkdir"
    /\ IF Exists(ShardDir(req[p].name))
       THEN /\ Done(p, Raised("FileExistsError"))
            /\ UNCHANGED <<files, dirs>>
       ELSE /\ dirs' = dirs \cup {<<Store>>, ShardDir(req[p].name)}
            /\ Goto(p, "put_mktemp")
            /\ UNCHANGED <<files, tmp, written, exc, resp>>
    /\ UNCHANGED <<req, nreq, hist, sib>>

\* tf = tmp.NamedTemporaryFile(delete=False, dir=filepath.parent); tf.file.close()
\* The creation may fail (no room for a new file): nothing is created then.
PutMktemp(p) ==
    /\ pc[p] = "put_mktemp"
    /\ IF ~IsDir(ShardDir(req[p].name))
       THEN /\ Done(p, Raised("FileNotFoundError"))
            /\ UNCHANGED files
       ELSE \/ /\ Done(p, Raised("ENOSPC"))
               /\ UNCHANGED files
            \/ \E t \in FreeTmp(ShardDir(req[p].name)) :
               /\ files' = With(files, Append(ShardDir(req[p].name), t), <<>>)
               /\ tmp' = [tmp EXCEPT ![p] = t]
               /\ Goto(p, "put_open")
               /\ UNCHANGED <<written, exc, resp>>
    /\ UNCHANGED <<dirs, req, nreq, hist, sib>>

\* open(tmppath, *args, **kwargs): kwargs still holds the writer's own
\* `fsync`, which open() rejects before it touches the file. Without it,
\* open(tmppath, "wb") creates or truncates the file, or fails (no free file
\* descriptor) and leaves it.
PutOpen(p) ==
    /\ pc[p] = "put_open"
    /\ IF req[p].fsync
       THEN /\ exc' = [exc EXCEPT ![p] = "TypeError"]
            /\ Goto(p, "put_cleanup")
            /\ UNCHANGED files
       ELSE IF ~IsDir(ShardDir(req[p].name))
       THEN /\ exc' = [exc EXCEPT ![p] = "FileNotFoundError"]
            /\ Goto(p, "put_cleanup")
            /\ UNCHANGED files
       ELSE \/ /\ exc' = [exc EXCEPT ![p] = "EMFILE"]
               /\ Goto(p, "put_cleanup")
               /\ UNCHANGED files
            \/ /\ files' = With(files, TmpPath(p), <<>>)
               /\ Goto(p, "put_write")
               /\ UNCHANGED exc
    /\ UNCHANGED <<dirs, req, tmp, written, resp, nreq, hist, sib>>

\* Mutant: the bytes written never reach the file
PutWriteDropsBytes(p) ==
    /\ pc[p] = "put_write"
    /\ written[p] < Len(req[p].body)
    /\ written' = [written EXCEPT ![p] = written[p] + 1]
    /\ UNCHANGED <<files, dirs, pc, req, tmp, exc, resp, nreq, hist, sib>>

\* f.write(body), one byte reaching the file at a time; the descriptor stays
\* valid when the name has been unlinked, and the write may fail (disk full)
PutWrite(p) ==
    /\ pc[p] = "put_write"
    /\ written[p] < Len(req[p].body)
    /\ \E fault \in BOOLEAN :
         IF fault
         THEN /\ exc' = [exc EXCEPT ![p] = "ENOSPC"]
              /\ Goto(p, "put_cleanup")
              /\ UNCHANGED <<files, written>>
         ELSE /\ files' = IF IsFile(TmpPath(p))
                           THEN With(files, TmpPath(p),
                                     Append(files[TmpPath(p)],
                                            req[p].body[written[p] + 1]))
                           ELSE files
              /\ written' = [written EXCEPT ![p] = written[p] + 1]
              /\ UNCHANGED <<pc, exc>>
    /\ UNCHANGED <<dirs, req, tmp, resp, nreq, hist, sib>>

\* Mutant: a rename that refuses to replace an existing destination
PutRenameNoReplace(p) ==
    /\ pc[p] = "put_write"
    /\ written[p] = Len(req[p].body)
    /\ IF IsFile(TmpPath(p)) /\ ~IsFile(BlobPath(req[p].name))
       THEN /\ files' = With(Without(files, TmpPath(p)),
                             BlobPath(req[p].name), files[TmpPath(p)])
            /\ hist' = HistRename(BlobPath(req[p].name))
            /\ UNCHANGED exc
       ELSE /\ exc' = [exc EXCEPT ![p] = "FileExistsError"]
            /\ UNCHANGED <<files, hist>>
    /\ Goto(p, "put_cleanup")
    /\ UNCHANGED <<dirs, req, tmp, written, resp, nreq, sib>>

\* The writer's `finally` flushes and fsyncs only `if fsync`, and a writer
\* with fsync has left at open(): the step is reached with fsync off alone.
\* The file is closed; Path(tmppath).rename(filepath): the temporary file
\* takes the place of the destination, or the rename fails (input/output
\* error) and moves nothing.
PutRename(p) ==
    /\ pc[p] = "put_write"
    /\ written[p] = Len(req[p].body)
    /\ IF IsFile(TmpPath(p))
       THEN \/ /\ exc' = [exc EXCEPT ![p] = "EIO"]
               /\ UNCHANGED <<files, hist>>
            \/ /\ files' = With(Without(files, TmpPath(p)),
                                BlobPath(req[p].name), files[TmpPath(p)])
               /\ hist' = HistRename(BlobPath(req[p].name))
               /\ UNCHANGED exc
       ELSE /\ exc' = [exc EXCEPT ![p] = "FileNotFoundError"]
            /\ UNCHANGED <<files, hist>>
    /\ Goto(p, "put_cleanup")
    /\ UNCHANGED <<dirs, req, tmp, written, resp, nreq, sib>>

PutOk(hash) == [status |-> 200, kind |-> "file_hash", hash |-> hash,
                bytes |-> <<>>, err |-> ""]

\* Mutant: the temporary file is removed only when no exception is pending
PutCleanupOnSuccess(p) ==
    /\ pc[p] = "put_cleanup"
    /\ files' = IF IsFile(TmpPath(p)) /\ exc[p] = ""
                THEN Without(files, TmpPath(p)) ELSE files
    /\ IF exc[p] = ""
       THEN /\ Done(p, PutOk(req[p].name))
            /\ hist' = HistPut(req[p].body, req[p].name)
       ELSE /\ Done(p, Raised(exc[p]))
            /\ UNCHANGED hist
    /\ UNCHANGED <<dirs, req, nreq, sib>>

\* tempfile's finally: os.remove(tf.name), errno 2 is passed over; then the
\* pending exception goes on, or the handler returns the hash
PutCleanup(p) ==
    /\ pc[p] = "put_cleanup"
    /\ files' = IF IsFile(TmpPath(p)) THEN Without(files, TmpPath(p)) ELSE files
    /\ IF exc[p] = ""
       THEN /\ Done(p, PutOk(req[p].name))
            /\ hist' = HistPut(req[p].body, req[p].name)
       ELSE /\ Done(p, Raised(exc[p]))
            /\ UNCHANGED hist
    /\ UNCHANGED <<dirs, req, nreq, sib>>

\* ---------------------------------------------------- download_file (get)
NotFound404 == Reply(404, "not_found")
FileReply(content) == [status |-> 200, kind |-> "file", hash |-> <<>>,
                       bytes |-> content, err |-> ""]

\* file_hash = request.match_info["name"]
StartGet(p, name) ==
    /\ Accepts(p)
    /\ nreq' = nreq + 1
    /\ req' = [req EXCEPT ![p] = [op |-> "get", body |-> <<>>, name |-> name,
                                  fsync |-> FALSE]]
    /\ Goto(p, "get_exists")
    /\ UNCHANGED <<files, dirs, tmp, written, exc, resp, hist, sib>>

\* if not file_path.exists(): 404; else return web.FileResponse(file_path)
GetExists(p) ==
    /\ pc[p] = "get_exists"
    /\ IF Exists(FilePath(req[p].name))
       THEN /\ Goto(p, "get_send")
            /\ UNCHANGED <<tmp, written, exc, resp>>
       ELSE Done(p, NotFound404)
    /\ UNCHANGED <<files, dirs, req, nreq, hist, sib>>

\* The server opens the returned path and sends the file. When the path is
\* no regular file any more, the answer is the library's: 404 or 500.
GetSend(p) ==
    /\ pc[p] = "get_send"
    /\ LET r == Resolve(FilePath(req[p].name)) IN
       IF r.ok /\ IsFile(r.path)
       THEN Done(p, FileReply(files[r.path]))
       ELSE \E a \in {NotFound404, Raised("OSError")} : Done(p, a)
    /\ UNCHANGED <<files, dirs, req, nreq, hist, sib>>

\* what a get of `name` answers when nothing runs between its two steps
Get(name) ==
    LET r == Resolve(FilePath(name)) IN
    IF ~Exists(FilePath(name)) THEN NotFound404
    ELSE IF IsFile(r.path) THEN FileReply(files[r.path])
    ELSE Raised("OSError")

\* ----------------------------------------------------- delete_file (delete)
NotFound400 == Reply(400, "not_found")
Removed == Reply(200, "removed")

\* content type is not json, or the body has no key "name": 400
DeleteBadRequest(p) ==
    /\ Accepts(p)
    /\ nreq' = nreq + 1
    /\ req' = [req EXCEPT ![p] = [op |-> "delete", body |-> <<>>,
                                  name |-> <<>>, fsync |-> FALSE]]
    /\ \E k \in {"content_type", "key_name"} : Done(p, Reply(400, k))
    /\ UNCHANGED <<files, dirs, hist, sib>>

\* body = await request.json(); file_hash = body["name"]
StartDelete(p, name) ==
    /\ Accepts(p)
    /\ nreq' = nreq + 1
    /\ req' = [req EXCEPT ![p] = [op |-> "delete", body |-> <<>>,
                                  name |-> name, fsync |-> FALSE]]
    /\ Goto(p, "del_exists")
    /\ UNCHANGED <<files, dirs, tmp, written, exc, resp, hist, sib>>

\* Mutant: the delete does not test for the file before unlinking it
DelExistsUnchecked(p) ==
    /\ pc[p] = "del_exists"
    /\ Goto(p, "del_unlink")
    /\ UNCHANGED <<files, dirs, req, tmp, written, exc, resp, nreq, hist, sib>>

\* if not file_path.exists(): "not found", status 400
DelExists(p) ==
    /\ pc[p] = "del_exists"
    /\ IF Exists(FilePath(req[p].name))
       THEN /\ Goto(p, "del_unlink")
            /\ UNCHANGED <<tmp, written, exc, resp>>
       ELSE Done(p, NotFound400)
    /\ UNCHANGED <<files, dirs, req, nreq, hist, sib>>

\* history: a delete has unlinked `path`
HistUnlink(path) ==
    [b \in Payloads |-> IF path = BlobPath(Fingerprint(b))
                        THEN [hist[b] EXCEPT !.rets = <<>>, !.pub = FALSE]
                        ELSE hist[b]]

\* the regular files beside path `f` in its directory, with their content
Siblings(f) == {<<q[Len(q)], files[q]>> :
                  q \in {g \in DOMAIN files : Len(g) = Len(f) /\ g # f
                                               /\ Parent(g) = Parent(f)}}

\* Mutant: the delete empties the file instead of unlinking it
DelUnlinkTruncates(p) ==
    /\ pc[p] = "del_unlink"
    /\ LET r == Resolve(FilePath(req[p].name)) IN
       IF r.ok /\ IsFile(r.path)
       THEN /\ files' = With(files, r.path, <<>>)
            /\ sib' = [sib EXCEPT ![p] = Siblings(r.path)]
            /\ hist' = HistUnlink(r.path)
            /\ Goto(p, "del_iterdir")
            /\ UNCHANGED <<tmp, written, exc, resp>>
       ELSE /\ Done(p, Raised("FileNotFoundError"))
            /\ UNCHANGED <<files, sib, hist>>
    /\ UNCHANGED <<dirs, req, nreq>>

\* file_path.unlink(): raises when the path is gone or is a directory
DelUnlink(p) ==
    /\ pc[p] = "del_unlink"
    /\ LET r == Resolve(FilePath(req[p].name)) IN
       IF r.ok /\ IsFile(r.path)
       THEN /\ files' = Without(files, r.path)
            /\ sib' = [sib EXCEPT ![p] = Siblings(r.path)]
            /\ hist' = HistUnlink(r.path)
            /\ Goto(p, "del_iterdir")
            /\ UNCHANGED <<tmp, written, exc, resp>>
       ELSE /\ Done(p, Raised(IF r.ok /\ IsDir(r.path) THEN "IsADirectoryError"
                                ELSE "FileNotFoundError"))
            /\ UNCHANGED <<files, sib, hist>>
    /\ UNCHANGED <<dirs, req, nreq>>

\* history: a delete of `name` has answered "removed"
HistDelete(name) ==
    [b \in Payloads |-> IF FilePath(name) = BlobPath(Fingerprint(b))
                        THEN [hist[b] EXCEPT !.del = TRUE] ELSE hist[b]]

\* Mutant: the delete never reclaims the directory
DelIterdirKeepsDir(p) ==
    /\ pc[p] = "del_iterdir"
    /\ Done(p, Removed)
    /\ hist' = HistDelete(req[p].name)
    /\ UNCHANGED <<files, dirs, req, nreq, sib>>

\* Mutant: the delete removes the directory with all that is left in it
DelIterdirRmtree(p) ==
    /\ pc[p] = "del_iterdir"
    /\ LET d == Resolve(Parent(FilePath(req[p].name))) IN
       IF ~(d.ok /\ d.path \in dirs)
       THEN /\ Done(p, Raised("FileNotFoundError"))
            /\ UNCHANGED <<files, dirs, hist>>
       ELSE /\ files' = [q \in {g \in DOMAIN files :
                                  ~(Len(g) > Len(d.path)
                                    /\ SubSeq(g, 1, Len(d.path)) = d.path)}
                           |-> files[q]]
            /\ dirs' = {g \in dirs : ~(Len(g) >= Len(d.path)
                                        /\ SubSeq(g, 1, Len(d.path)) = d.path)}
            /\ Done(p, Removed)
            /\ hist' = HistDelete(req[p].name)
    /\ UNCHANGED <<req, nreq, sib>>

\* if not any(file_path.parent.iterdir()): raises when the directory is gone
DelIterdir(p) ==
    /\ pc[p] = "del_iterdir"
    /\ LET d == Resolve(Parent(FilePath(req[p].name))) IN
       IF ~(d.ok /\ IsDir(d.path))
       THEN /\ Done(p, Raised("FileNotFoundError"))
            /\ UNCHANGED hist
       ELSE IF Entries(d.path) # {}
       THEN /\ Done(p, Removed)
            /\ hist' = HistDelete(req[p].name)
       ELSE /\ Goto(p, "del_rmdir")
            /\ UNCHANGED <<tmp, written, exc, resp, hist>>
    /\ UNCHANGED <<files, dirs, req, nreq, sib>>

\* Mutant: the directory is removed with whatever has appeared in it
DelRmdirForce(p) ==
    /\ pc[p] = "del_rmdir"
    /\ LET d == Resolve(Parent(FilePath(req[p].name))) IN
       IF d.ok /\ d.path \in dirs
       THEN /\ dirs' = dirs \ {d.path}
            /\ files' = [f \in {g \in DOMAIN files : Parent(g) # d.path}
                           |-> files[f]]
            /\ Done(p, Removed)
            /\ hist' = HistDelete(req[p].name)
       ELSE /\ Done(p, Raised("FileNotFoundError"))
            /\ UNCHANGED <<files, dirs, hist>>
    /\ UNCHANGED <<req, nreq, sib>>

\* file_path.parent.rmdir(): raises when the directory is gone or not empty
DelRmdir(p) ==
    /\ pc[p] = "del_rmdir"
    /\ LET d == Resolve(Parent(FilePath(req[p].name))) IN
       IF d.ok /\ d.path \in dirs /\ Entries(d.path) = {}
       THEN /\ dirs' = dirs \ {d.path}
            /\ Done(p, Removed)
            /\ hist' = HistDelete(req[p].name)
       ELSE /\ Done(p, Raised(IF d.ok /\ IsDir(d.path) THEN "ENOTEMPTY"
                                ELSE "FileNotFoundError"))
            /\ UNCHANGED <<dirs, hist>>
    /\ UNCHANGED <<files, req, nreq, sib>>

\* ------------------------------------------------------------ specifications
\* Handlers of several server processes or threads over one store: their
\* file-system steps interleave freely.
Next ==
    \E p \in Procs :
        \/ \E body \in Payloads : StartPut(p, body)
        \/ PutExists(p)
        \/ PutMkdir(p)
        \/ PutMktemp(p)
        \/ PutOpen(p)
        \/ PutWrite(p)
        \/ PutRename(p)
        \/ PutCleanup(p)
        \/ \E name \in GetNames : StartGet(p, name)
        \/ GetExists(p)
        \/ GetSend(p)
        \/ DeleteBadRequest(p)
        \/ \E name \in DeleteNames : StartDelete(p, name)
        \/ DelExists(p)
        \/ DelUnlink(p)
        \/ DelIterdir(p)
        \/ DelRmdir(p)
        \/ Finish(p)

Spec == Init /\ [][Next]_vars

\* One event loop: a handler's steps after its await run to the response
\* before another handler starts.
Alone(p) == \A q \in Procs \ {p} : pc[q] = "idle"

LoopNext ==
    \E p \in Procs :
        \/ Alone(p) /\ (\E body \in Payloads : StartPut(p, body))
        \/ Alone(p) /\ PutExists(p)
        \/ Alone(p) /\ PutMkdir(p)
        \/ Alone(p) /\ PutMktemp(p)
        \/ Alone(p) /\ PutOpen(p)
        \/ Alone(p) /\ PutWrite(p)
        \/ Alone(p) /\ PutRename(p)
        \/ Alone(p) /\ PutCleanup(p)
        \/ Alone(p) /\ (\E name \in GetNames : StartGet(p, name))
        \/ Alone(p) /\ GetExists(p)
        \/ Alone(p) /\ GetSend(p)
        \/ Alone(p) /\ DeleteBadRequest(p)
        \/ Alone(p) /\ (\E name \in DeleteNames : StartDelete(p, name))
        \/ Alone(p) /\ DelExists(p)
        \/ Alone(p) /\ DelUnlink(p)
        \/ Alone(p) /\ DelIterdir(p)
        \/ Alone(p) /\ DelRmdir(p)
        \/ Alone(p) /\ Finish(p)

LoopSpec == Init /\ [][LoopNext]_vars

\* The handlers as coroutines of one event loop. A coroutine gives the loop
\* away only where it awaits: upload_file and delete_file await the request
\* body and nothing after it, download_file awaits nothing; the server awaits
\* while it sends a response. Mutant: a writer that awaits at each write.
AwaitsInWrite == {"idle", "get_send", "done", "put_write"}

\* the places where a handler is suspended: waiting for a request and its
\* body, returned with a FileResponse to be sent, returned with a response
AwaitPoints == {"idle", "get_send", "done"}

\* the loop runs a step of p when no other coroutine is between two awaits
Turn(p) == \A q \in Procs \ {p} : pc[q] \in AwaitPoints

\* The file of a FileResponse is opened by the server, after the handler has
\* returned, in the loop or in a thread of its executor: at any moment.
EventLoopNext ==
    \E p \in Procs :
        \/ Turn(p) /\ (\E body \in Payloads : StartPut(p, body))
        \/ Turn(p) /\ PutExists(p)
        \/ Turn(p) /\ PutMkdir(p)
        \/ Turn(p) /\ PutMktemp(p)
        \/ Turn(p) /\ PutOpen(p)
        \/ Turn(p) /\ PutWrite(p)
        \/ Turn(p) /\ PutRename(p)
        \/ Turn(p) /\ PutCleanup(p)
        \/ Turn(p) /\ (\E name \in GetNames : StartGet(p, name))
        \/ Turn(p) /\ GetExists(p)
        \/ Turn(p) /\ DeleteBadRequest(p)
        \/ Turn(p) /\ (\E name \in DeleteNames : StartDelete(p, name))
        \/ Turn(p) /\ DelExists(p)
        \/ Turn(p) /\ DelUnlink(p)
        \/ Turn(p) /\ DelIterdir(p)
        \/ Turn(p) /\ DelRmdir(p)
        \/ Turn(p) /\ Finish(p)
        \/ GetSend(p)

EventLoopSpec == Init /\ [][EventLoopNext]_vars

\* The server process is killed while a handler runs: the handler's frames
\* are gone, no `finally` runs, the files stay as they are. The restarted
\* server starts from the store as it finds it.
Stale == {f \in DOMAIN files :
            /\ f[Len(f)] \in TmpNames
            /\ \A p \in Procs : tmp[p] = <<>> \/ TmpPath(p) # f}

Kill(p) ==
    /\ pc[p] \notin {"idle", "done"}
    /\ Cardinality(Stale) < MaxStale
    /\ Goto(p, "idle")
    /\ req' = [req EXCEPT ![p] = NoReq]
    /\ tmp' = [tmp EXCEPT ![p] = <<>>]
    /\ written' = [written EXCEPT ![p] = 0]
    /\ exc' = [exc EXCEPT ![p] = ""]
    /\ sib' = [sib EXCEPT ![p] = {}]
    /\ hist' = IF pc[p] \in {"put_open", "put_write"}
               THEN [hist EXCEPT ![req[p].body].cut = TRUE]
               ELSE hist
    /\ UNCHANGED <<files, dirs, resp, nreq>>

KillNext ==
    \/ LoopNext
    \/ \E p \in Procs : Alone(p) /\ Kill(p)

KillSpec == Init /\ [][KillNext]_vars

\* One event loop whose uploads may ask the writer for fsync.
SyncNext ==
    \/ LoopNext
    \/ \E p \in Procs : Alone(p) /\ (\E body \in Payloads : StartPutFsync(p, body))

SyncSpec == Init /\ [][SyncNext]_vars

\* ------------------------------------------------------------------ claims
Last(q) == q[Len(q)]
IsHex(c) == \E i \in 1..16 : HexDigits[i] = c
\* a name with the shape of a digest
WellFormed(name) == Len(name) = HexLen /\ \A i \in 1..Len(name) : IsHex(name[i])
\* the request of p has been answered and nothing has run since
Answered(p, op) == pc[p] = "done" /\ req[p].op = op
\* regular files below store/
StoreFiles == {q \in DOMAIN files : q[1] = Store}

\* C1: once a put of payload b has returned fingerprint fp and no delete has
\* unlinked store/fp[0:2]/fp since, that path is a file holding b and a get
\* of fp answers with the bytes b.
RoundTrip ==
    \A b \in Payloads :
        hist[b].rets # <<>> =>
            LET fp == Last(hist[b].rets) IN
            /\ IsFile(<<Store, SubSeq(fp, 1, 2), fp>>)
            /\ files[<<Store, SubSeq(fp, 1, 2), fp>>] = b
            /\ Get(fp) = FileReply(b)
            /\ \A p \in Procs :
                  Answered(p, "get") /\ req[p].name = fp => resp[p] = FileReply(b)

RoundTripWitness ==
    \E p \in Procs, b \in Payloads :
        /\ b # <<>>
        /\ hist[b].rets # <<>>
        /\ Answered(p, "get")
        /\ req[p].name = Last(hist[b].rets)
        /\ resp[p].status = 200

\* C3: a put of a payload whose earlier put has returned (and which has not
\* been deleted since) returns the same fingerprint again, and leaves one
\* file with that payload in the store, at the blob's path, with no
\* temporary file beside it.
PutIdempotent ==
    \A p \in Procs :
        (/\ Answered(p, "put")
         /\ hist[req[p].body].rets # <<>>
         /\ resp[p].err \notin EnvFaults)
        => LET rets == hist[req[p].body].rets
               fp == rets[1] IN
           /\ resp[p] = PutOk(fp)
           /\ \A i \in 1..Len(rets) : rets[i] = fp
           /\ {q \in StoreFiles : files[q] = req[p].body}
                 = {<<Store, SubSeq(fp, 1, 2), fp>>}
           /\ Entries(<<Store, SubSeq(fp, 1, 2)>>) \cap TmpNames = {}

PutIdempotentWitness ==
    \E p \in Procs :
        /\ Answered(p, "put")
        /\ req[p].body # <<>>
        /\ Len(hist[req[p].body].rets) = 2
        /\ resp[p].status = 200

\* C4: after a delete of fp has answered "removed" and no put has published
\* at store/fp[0:2]/fp since, that path does not exist and a get of fp
\* answers 404 not found.
DeletedIsGone ==
    \A b \in Payloads :
        hist[b].del =>
            LET fp == Fingerprint(b) IN
            /\ ~Exists(<<Store, SubSeq(fp, 1, 2), fp>>)
            /\ Get(fp) = NotFound404
            /\ \A p \in Procs :
                  Answered(p, "get") /\ req[p].name = fp => resp[p] = NotFound404

DeletedIsGoneWitness ==
    \E p \in Procs, b \in Payloads :
        /\ hist[b].del
        /\ Answered(p, "get")
        /\ req[p].name = Fingerprint(b)
        /\ resp[p].status = 404

\* the delete of p has answered "removed" for a blob of a shard directory
RemovedBlob(p) ==
    /\ Answered(p, "delete")
    /\ resp[p] = Removed
    /\ \E fp \in Fingerprints :
         FilePath(req[p].name) = <<Store, SubSeq(fp, 1, 2), fp>>

\* C6: when a delete has removed the only blob of a shard directory and
\* answers "removed", the shard directory does not exist.
LastBlobReclaimsShard ==
    \A p \in Procs :
        RemovedBlob(p) /\ sib[p] = {}
        => ~Exists(Parent(FilePath(req[p].name)))

LastBlobReclaimsShardWitness ==
    \E p \in Procs :
        /\ RemovedBlob(p)
        /\ sib[p] = {}
        /\ WellFormed(req[p].name)

\* C7: when a delete has removed one of the two blobs of a shard directory
\* and answers "removed", the shard directory exists, the other blob has the
\* content it had, and a get of it answers with that content.
OtherBlobKept ==
    \A p \in Procs :
        RemovedBlob(p) /\ Cardinality(sib[p]) = 1
        => LET d == Parent(FilePath(req[p].name)) IN
           /\ d \in dirs
           /\ \A e \in sib[p] :
                 /\ IsFile(Append(d, e[1]))
                 /\ files[Append(d, e[1])] = e[2]
                 /\ Get(e[1]) = FileReply(e[2])

OtherBlobKeptWitness ==
    \E p \in Procs :
        /\ RemovedBlob(p)
        /\ Cardinality(sib[p]) = 1
        /\ WellFormed(req[p].name)

FinalPath(fp) == <<Store, SubSeq(fp, 1, 2), fp>>

\* a file at a final path holds a whole payload, the one named by the path
NoTornBlob ==
    \A fp \in Fingerprints \cup {Unused} :
        IsFile(FinalPath(fp)) =>
            /\ files[FinalPath(fp)] \in Payloads
            /\ Fingerprint(files[FinalPath(fp)]) = fp

\* a final path comes to hold a file, or other bytes, only by the rename of
\* a put of that fingerprint whose body is fully written
PublishedByRename ==
    \A fp \in Fingerprints \cup {Unused} :
        (/\ IsFile(FinalPath(fp))'
         /\ (~IsFile(FinalPath(fp)) \/ files'[FinalPath(fp)] # files[FinalPath(fp)]))
        => \E p \in Procs :
              /\ pc[p] = "put_write" /\ pc'[p] = "put_cleanup"
              /\ req[p].name = fp
              /\ written[p] = Len(req[p].body)
              /\ exc'[p] = ""

\* C2: under every interleaving of puts, gets and deletes, and at every
\* point where a put may fail or stop, the file at a final path
\* store/fp[0:2]/fp is absent or holds the whole payload whose fingerprint
\* is fp, and the final path receives its file only at the rename step.
AtomicVisibility == []NoTornBlob /\ [][PublishedByRename]_vars

\* a put has published a blob while a second put of the same payload has
\* written only part of its temporary file
AtomicVisibilityWitness ==
    \E p, q \in Procs :
        /\ p # q
        /\ req[p].op = "put" /\ req[q].op = "put"
        /\ req[p].body = req[q].body /\ req[p].body # <<>>
        /\ pc[p] = "put_write" /\ written[p] < Len(req[p].body)
        /\ IsFile(TmpPath(p))
        /\ pc[q] = "done" /\ resp[q].status = 200
        /\ IsFile(FinalPath(req[p].name))

\* C11: when a put of payload b has been killed between the creation of its
\* temporary file and its rename, and no rename has published b's final path
\* since the last unlink of it, there is no file at store/fp[0:2]/fp and a
\* get of fp answers 404; no get of any name answers with the bytes of a
\* file a kill has left behind, unless a published blob holds those bytes.
KilledPutUnpublished ==
    /\ \A b \in Payloads :
          hist[b].cut /\ ~hist[b].pub =>
              /\ ~Exists(FinalPath(Fingerprint(b)))
              /\ Get(Fingerprint(b)) = NotFound404
    /\ \A f \in Stale, name \in GetNames :
          Get(name) = FileReply(files[f]) =>
              /\ name \in Fingerprints
              /\ hist[files[f]].pub

\* a put of a non-empty payload has been killed with the whole payload in
\* its temporary file, and a get of the fingerprint has answered since
KilledPutUnpublishedWitness ==
    \E p \in Procs, b \in Payloads, f \in Stale :
        /\ b # <<>>
        /\ hist[b].cut /\ ~hist[b].pub
        /\ files[f] = b
        /\ Parent(f) = ShardDir(Fingerprint(b))
        /\ Answered(p, "get")
        /\ req[p].name = Fingerprint(b)
        /\ resp[p] = NotFound404

\* C5: a step of a get or delete whose name is no well-formed fingerprint
\* changes no file and no directory.
MalformedNeverMutates ==
    [][\A p \in Procs :
         (/\ req[p].op \in {"get", "delete"}
          /\ ~WellFormed(req[p].name)
          /\ pc'[p] # pc[p])
         => files' = files /\ dirs' = dirs]_vars

\* C9: two puts of the same payload, the only requests so far, neither hit
\* by an error of the operating system: both have returned the payload's fingerprint and the
\* final path holds the payload.
ConcurrentPutsSucceed ==
    \A p, q \in Procs :
        (/\ p # q
         /\ nreq = 2
         /\ Answered(p, "put") /\ Answered(q, "put")
         /\ req[p].body = req[q].body
         /\ resp[p].err \notin EnvFaults /\ resp[q].err \notin EnvFaults)
        => /\ resp[p] = PutOk(Fingerprint(req[p].body))
           /\ resp[q] = resp[p]
           /\ IsFile(FinalPath(req[p].name))
           /\ files[FinalPath(req[p].name)] = req[p].body

\* C10: a delete whose rmdir finds the shard directory filled again by a
\* concurrent put answers "removed".
RmdirRaceSwallowed ==
    [][\A p \in Procs :
         (/\ pc[p] = "del_rmdir"
          /\ pc'[p] = "done"
          /\ Parent(FilePath(req[p].name)) \in dirs
          /\ Entries(Parent(FilePath(req[p].name))) # {})
         => resp'[p] = Removed]_vars

\* C12: a step of a put whose final path already holds a blob changes no
\* file and no directory: no temporary file appears and nothing is renamed
\* over the blob.
PresentBlobNotRewritten ==
    [][\A p \in Procs :
         (/\ req[p].op = "put"
          /\ IsFile(FinalPath(req[p].name))
          /\ pc'[p] # pc[p])
         => files' = files /\ dirs' = dirs]_vars

\* what the file system `fs` holds at `path`: nothing, or one content
HeldIn(fs, path) == IF path \in DOMAIN fs THEN <<fs[path]>> ELSE <<>>

ShardDirs == {d \in dirs : Len(d) = 2 /\ d[1] = Store}

\* C14: when no put and no delete is in progress, every shard directory
\* holds at least one blob at its final path.
NoEmptyShardAtRest ==
    (\A p \in Procs : pc[p] \in {"idle", "done"})
    => \A d \in ShardDirs :
          \E fp \in Fingerprints \cup {Unused} :
              ShardDir(fp) = d /\ IsFile(FinalPath(fp))

\* C15: a put through the writer with fsync on, not hit by an error of the
\* operating system, returns the fingerprint and has published the payload
\* at the final path.
FsyncWriteSucceeds ==
    \A p \in Procs :
        (/\ Answered(p, "put")
         /\ req[p].fsync
         /\ resp[p].err \notin EnvFaults)
        => /\ resp[p] = PutOk(req[p].name)
           /\ IsFile(FinalPath(req[p].name))
           /\ files[FinalPath(req[p].name)] = req[p].body

\* C16: of two deletes of the same well-formed name in flight together, the
\* one whose unlink step finds the file gone ends as Ok or NotFound does:
\* its unlink step raises nothing.
ConcurrentDeletesHandled ==
    [][\A p, q \in Procs :
         (/\ p # q
          /\ req[p].op = "delete" /\ req[q].op = "delete"
          /\ req[p].name = req[q].name
          /\ WellFormed(req[p].name)
          /\ pc[p] = "del_unlink"
          /\ pc'[p] # pc[p])
         => /\ resp'[p].kind # "error"
            /\ pc'[p] = "done" => resp'[p] \in {Removed, NotFound400}]_vars

\* C17: while a delete of a different blob of the same shard is in flight
\* (and with at most one request before the two, so that no other delete has
\* touched the shard), no step of a put finds its directory or its temporary
\* file missing: the put ends with its fingerprint, unless an error of the
\* operating system or the mkdir race of two puts has hit it.
PutUnharmedByDelete ==
    [][\A p, q \in Procs :
         (/\ p # q
          /\ nreq <= 3
          /\ req[p].op = "put"
          /\ pc'[p] # pc[p]
          /\ req[q].op = "delete"
          /\ req[q].name \in Fingerprints
          /\ req[q].name # req[p].name
          /\ ShardDir(req[q].name) = ShardDir(req[p].name))
         => /\ exc'[p] # "FileNotFoundError"
            /\ resp'[p].err # "FileNotFoundError"
            /\ pc'[p] = "done"
                  => \/ resp'[p] = PutOk(req[p].name)
                     \/ resp'[p].err \in EnvFaults \cup {"FileExistsError"}]_vars

\* a put holds its temporary file: from its creation to the rename, or to
\* the cleanup after a failure
HoldsTmp(p) ==
    \/ pc[p] \in {"put_open", "put_write"}
    \/ pc[p] = "put_cleanup" /\ exc[p] # ""

\* while a put holds its temporary file, the shard directory exists and
\* the file is in it
TmpPinsShard ==
    \A p \in Procs :
        HoldsTmp(p) => /\ ShardDir(req[p].name) \in dirs
                       /\ IsFile(TmpPath(p))

\* the rename step of a put finds its directory and its temporary file
RenameFindsShard ==
    \A p \in Procs :
        pc[p] = "put_write" /\ pc'[p] = "put_cleanup"
        => exc'[p] # "FileNotFoundError"

\* C18: under every interleaving, from the creation of a put's temporary
\* file until its rename or cleanup the shard directory exists (no delete
\* removes it), and no rename step finds the directory missing.
ShardOutlivesTmp == []TmpPinsShard /\ [][RenameFindsShard]_vars

\* a delete has unlinked the last blob of a shard and has been answered
\* while a put holds its temporary file there, the only entry left
ShardOutlivesTmpWitness ==
    \E p, q \in Procs :
        /\ pc[p] = "put_write"
        /\ Answered(q, "delete")
        /\ req[q].name \in Fingerprints
        /\ req[q].name # req[p].name
        /\ ShardDir(req[q].name) = ShardDir(req[p].name)
        /\ sib[q] \subseteq {<<tmp[p], <<>>>>}
        /\ resp[q].status \in {200, 500}
        /\ Entries(ShardDir(req[p].name)) = {tmp[p]}

\* the handler of p is inside the file-system steps of an upload (after the
\* body is read) or of a delete (after the JSON body is parsed)
InFsSteps(p) ==
    pc[p] \in {"put_exists", "put_mkdir", "put_mktemp", "put_open", "put_write",
               "put_cleanup", "del_exists", "del_unlink", "del_iterdir",
               "del_rmdir"}

\* while p is inside its file-system steps, every step that changes a file,
\* a directory or the place of a handler is a step of p, but for the
\* server's sending of a file already returned by a get
NoStepInside ==
    \A p, q \in Procs :
        (p # q /\ InFsSteps(p))
        => /\ pc'[q] # pc[q] => pc[q] = "get_send"
           /\ (files' # files \/ dirs' # dirs)
                 => (pc'[p] # pc[p] \/ written'[p] # written[p])

\* C19: in one event loop no two handlers are inside the file-system steps
\* of an upload or a delete at once, and no step of another handler falls
\* between the first and the last file-system step of an upload or delete.
NoSuspensionInside ==
    /\ [](\A p, q \in Procs : p # q => ~(InFsSteps(p) /\ InFsSteps(q)))
    /\ [][NoStepInside]_vars

\* an upload has written part of its body while a second request is in
\* flight, suspended: a delete whose response is being sent
NoSuspensionInsideWitness ==
    \E p, q \in Procs :
        /\ p # q
        /\ pc[p] = "put_write" /\ written[p] > 0
        /\ pc[q] = "done" /\ req[q].op = "delete" /\ resp[q] = Removed

====
